---------------------------- MODULE Spec2Model ----------------------------
(***************************************************************************)
(* Model of yomikae-data/expand_false_friends.py: the JCKV converter, the  *)
(* similarity scorer, the candidate and curated loaders and the merge of   *)
(* the three record lists.                                                 *)
(*                                                                         *)
(* Free-text strings (characters, readings, ids, spreadsheet cells,        *)
(* meanings) are sequences of Unicode code points, so that str.strip,      *)
(* str.lower, str.split, the "04d" formatting and the ordering of str are  *)
(* computed as Python computes them.  Enumerated tags (severity, category, *)
(* source) are TLA+ strings: the code only compares them for equality.     *)
(*                                                                         *)
(* FalseFriend objects live in `heap` (object number -> field values); the *)
(* lists hold object numbers, so that the in-place assignment of           *)
(* merge_false_friends is visible through every list that holds the        *)
(* object.                                                                 *)
(***************************************************************************)
EXTENDS Integers, Sequences, FiniteSets, TLC

VARIABLES
    pc,        \* position of the run
    heap,      \* the FalseFriend objects: object number -> fields
    curated,   \* list built by load_curated_false_friends
    jckv,      \* list built by convert_jckv_database
    auto,      \* list built by auto_detect_false_friends
    args,      \* <<curated, jckv, auto>> arguments of the latest merge call
    pre,       \* the heap as it was when the latest merge call was entered
    result,    \* list returned by the latest merge call
    first,     \* list returned by the merge call before a re-merge
    entries,   \* the entries of the curated JSON file
    rows,      \* the rows of the JCKV sheet below its header
    jp_in,     \* compute_meaning_similarity: argument jp_meanings
    cn_in,     \* compute_meaning_similarity: argument cn_meanings
    score      \* compute_meaning_similarity: returned value, <<num, den>>

vars == <<pc, heap, curated, jckv, auto, args, pre, result, first,
          entries, rows, jp_in, cn_in, score>>

\* what a merge call does not touch
inputs == <<curated, jckv, auto, entries, rows, jp_in, cn_in, score>>

-----------------------------------------------------------------------------
(* Bounds of the model *)

\* objects created over one run (all three lists together)
MaxRecs == 3

\* strings in one meanings list
MaxMeanings == 2

-----------------------------------------------------------------------------
(* Strings as sequences of code points *)

Range(s) == {s[i] : i \in 1..Len(s)}

\* Python's str ordering: lexicographic on code points, a proper prefix first
RECURSIVE StrLess(_, _)
StrLess(a, b) ==
    IF b = <<>> THEN FALSE
    ELSE IF a = <<>> THEN TRUE
    ELSE IF a[1] # b[1] THEN a[1] < b[1]
    ELSE StrLess(Tail(a), Tail(b))

StrLeq(a, b) == a = b \/ StrLess(a, b)

\* sample written forms: 出口, 愛, 愛人 (one a proper prefix of another)
K_deguchi == <<20986, 21475>>
K_ai      == <<24859>>
K_aijin   == <<24859, 20154>>
Keys == {K_deguchi, K_ai, K_aijin}

\* sample readings
R_ai    == <<12450, 12452>>
R_kai   == <<12459, 12452>>
P_ai    == <<97, 105>>
P_kai   == <<107, 97, 105>>

-----------------------------------------------------------------------------
(* merge_false_friends *)

\* the dict `merged`: a sequence of [k, v] in insertion order
DictHas(d, k) == \E i \in 1..Len(d) : d[i].k = k

DictGet(d, k) == d[CHOOSE i \in 1..Len(d) : d[i].k = k].v

\* mutant: every assignment adds an entry, also for a key already present
DictSet_append(d, k, v) == Append(d, [k |-> k, v |-> v])

\* merged[k] = v: an existing key keeps its place
DictSet(d, k, v) ==
    IF DictHas(d, k)
    THEN [i \in 1..Len(d) |-> IF d[i].k = k THEN [k |-> k, v |-> v] ELSE d[i]]
    ELSE Append(d, [k |-> k, v |-> v])

DictValues(d) == [i \in 1..Len(d) |-> d[i].v]

\* for ff in auto: merged[ff.characters] = ff
RECURSIVE MergeAutoLoop(_, _, _)
MergeAutoLoop(d, h, lst) ==
    IF lst = <<>> THEN d
    ELSE MergeAutoLoop(DictSet(d, h[Head(lst)].characters, Head(lst)), h, Tail(lst))

\* mutant: the test "not ff.jp_reading" is missing
BackfillReading_always(h, ff, existing) ==
    IF h[existing].jp_reading # <<>>
    THEN [h EXCEPT ![ff].jp_reading = h[existing].jp_reading]
    ELSE h

\* if not ff.jp_reading and existing.jp_reading: ff.jp_reading = existing.jp_reading
BackfillReading(h, ff, existing) ==
    IF h[ff].jp_reading = <<>> /\ h[existing].jp_reading # <<>>
    THEN [h EXCEPT ![ff].jp_reading = h[existing].jp_reading]
    ELSE h

\* if not ff.cn_pinyin and existing.cn_pinyin: ff.cn_pinyin = existing.cn_pinyin
BackfillPinyin(h, ff, existing) ==
    IF h[ff].cn_pinyin = <<>> /\ h[existing].cn_pinyin # <<>>
    THEN [h EXCEPT ![ff].cn_pinyin = h[existing].cn_pinyin]
    ELSE h

\* mutant: the readings are moved, not copied: the record about to be
\* replaced loses what it gave
JckvStep_moves(st, ff) ==
    LET k  == st.h[ff].characters
        e  == DictGet(st.d, k)
        h1 == BackfillPinyin(BackfillReading(st.h, ff, e), ff, e)
        h2 == IF DictHas(st.d, k)
              THEN IF e # ff /\ h1 # st.h
                   THEN [h1 EXCEPT ![e].jp_reading = <<>>, ![e].cn_pinyin = <<>>]
                   ELSE h1
              ELSE st.h
    IN  [d |-> DictSet(st.d, k, ff), h |-> h2]

\* one iteration of "for ff in jckv" on st = [d |-> merged, h |-> heap]
JckvStep(st, ff) ==
    LET k  == st.h[ff].characters
        h2 == IF DictHas(st.d, k)
              THEN BackfillPinyin(BackfillReading(st.h, ff, DictGet(st.d, k)),
                                  ff, DictGet(st.d, k))
              ELSE st.h
    IN  [d |-> DictSet(st.d, k, ff), h |-> h2]

RECURSIVE MergeJckvLoop(_, _)
MergeJckvLoop(st, lst) ==
    IF lst = <<>> THEN st
    ELSE MergeJckvLoop(JckvStep(st, Head(lst)), Tail(lst))

\* mutant: a curated record does not replace a record already stored
RECURSIVE MergeCuratedLoop_keep(_, _, _)
MergeCuratedLoop_keep(d, h, lst) ==
    IF lst = <<>> THEN d
    ELSE MergeCuratedLoop_keep(
             IF DictHas(d, h[Head(lst)].characters) THEN d
             ELSE DictSet(d, h[Head(lst)].characters, Head(lst)),
             h, Tail(lst))

\* for ff in curated: merged[ff.characters] = ff
RECURSIVE MergeCuratedLoop(_, _, _)
MergeCuratedLoop(d, h, lst) ==
    IF lst = <<>> THEN d
    ELSE MergeCuratedLoop(DictSet(d, h[Head(lst)].characters, Head(lst)), h, Tail(lst))

\* mutant: an unrecognized severity gets rank 0
SeverityRank_default0(sev) ==
    CASE sev = "critical"  -> 0
      [] sev = "important" -> 1
      [] sev = "subtle"    -> 2
      [] OTHER             -> 0

\* severity_order.get(x.severity, 3)
SeverityRank(sev) ==
    CASE sev = "critical"  -> 0
      [] sev = "important" -> 1
      [] sev = "subtle"    -> 2
      [] OTHER             -> 3

\* mutant: the key is the severity rank alone and ties go to the later record
KeyLess_rankOnly(h, a, b) ==
    SeverityRank(h[a].severity) <= SeverityRank(h[b].severity)

\* the sort key (severity_order.get(x.severity, 3), x.characters), compared
\* as Python compares tuples
KeyLess(h, a, b) ==
    \/ SeverityRank(h[a].severity) < SeverityRank(h[b].severity)
    \/ /\ SeverityRank(h[a].severity) = SeverityRank(h[b].severity)
       /\ StrLess(h[a].characters, h[b].characters)

\* insert x after the last element that is not greater than it (stable)
RECURSIVE InsertSorted(_, _, _)
InsertSorted(h, s, x) ==
    IF s = <<>> THEN <<x>>
    ELSE IF KeyLess(h, x, Head(s)) THEN <<x>> \o s
    ELSE <<Head(s)>> \o InsertSorted(h, Tail(s), x)

\* sorted(merged.values(), key=...): a stable sort
RECURSIVE SortedLoop(_, _, _)
SortedLoop(h, acc, lst) ==
    IF lst = <<>> THEN acc
    ELSE SortedLoop(h, InsertSorted(h, acc, Head(lst)), Tail(lst))

SortedBySeverity(h, lst) == SortedLoop(h, <<>>, lst)

\* the whole call: the returned list and the heap it leaves
merge_false_friends(h, cur, jk, au) ==
    LET d1 == MergeAutoLoop(<<>>, h, au)
        st == MergeJckvLoop([d |-> d1, h |-> h], jk)
        d3 == MergeCuratedLoop(st.d, st.h, cur)
    IN  [result |-> SortedBySeverity(st.h, DictValues(d3)), heap |-> st.h]

-----------------------------------------------------------------------------
(* compute_meaning_similarity *)

\* what str.split() and str.strip() treat as whitespace (tab, newline,
\* carriage return, space, ideographic space)
IsSpace(c) == c \in {9, 10, 13, 32, 12288}

\* str.lower() on one code point (the Latin capitals)
LowerChar(c) == IF c >= 65 /\ c <= 90 THEN c + 32 ELSE c

\* mutant: the strings are split without being lowercased
Lower_missing(s) == s

\* m.lower()
Lower(s) == [i \in 1..Len(s) |-> LowerChar(s[i])]

\* m.split(): left-to-right scan; toks are the finished tokens, cur the open one
RECURSIVE SplitScan(_, _, _)
SplitScan(s, toks, cur) ==
    IF s = <<>> THEN (IF cur = <<>> THEN toks ELSE Append(toks, cur))
    ELSE IF IsSpace(Head(s))
         THEN SplitScan(Tail(s), IF cur = <<>> THEN toks ELSE Append(toks, cur), <<>>)
         ELSE SplitScan(Tail(s), toks, Append(cur, Head(s)))

Split(s) == SplitScan(s, <<>>, <<>>)

\* words = set(); for m in meanings: words.update(m.lower().split())
RECURSIVE WordSet(_)
WordSet(meanings) ==
    IF meanings = <<>> THEN {}
    ELSE Range(Split(Lower(Head(meanings)))) \cup WordSet(Tail(meanings))

\* a float as the fraction it stands for, in lowest terms
RECURSIVE Gcd(_, _)
Gcd(a, b) == IF b = 0 THEN a ELSE Gcd(b, a % b)

Frac(n, d) == <<n \div Gcd(n, d), d \div Gcd(n, d)>>

Half == Frac(1, 2)

FracLess(x, y) == x[1] * y[2] < y[1] * x[2]

compute_meaning_similarity(jp_meanings, cn_meanings) ==
    IF jp_meanings = <<>> \/ cn_meanings = <<>> THEN Half
    ELSE LET jp_words == WordSet(jp_meanings)
             cn_words == WordSet(cn_meanings)
             intersection == jp_words \cap cn_words
             union == jp_words \cup cn_words
         IN  IF jp_words = {} \/ cn_words = {} THEN Half
             ELSE IF union # {}
                  THEN Frac(Cardinality(intersection), Cardinality(union))
                  ELSE Half

-----------------------------------------------------------------------------
(* FalseFriend objects *)

\* Python's format(n, "04d"): the decimal digits of n, zero-padded to 4
RECURSIVE Digits(_)
Digits(n) == IF n < 10 THEN <<48 + n>> ELSE Digits(n \div 10) \o <<48 + (n % 10)>>

RECURSIVE ZeroPad(_, _)
ZeroPad(s, w) == IF Len(s) >= w THEN s ELSE ZeroPad(<<48>> \o s, w)

Fmt04d(n) == ZeroPad(Digits(n), 4)

Str_jckv_ == <<106, 99, 107, 118, 95>>
Str_auto_ == <<97, 117, 116, 111, 95>>
Str_ff_   == <<102, 102, 95>>

\* the modelled fields of the dataclass FalseFriend
FalseFriend(id, characters, type, category, severity, jp_reading, cn_pinyin, source, confidence) ==
    [id |-> id, characters |-> characters, type |-> type, category |-> category,
     severity |-> severity, jp_reading |-> jp_reading, cn_pinyin |-> cn_pinyin,
     source |-> source, confidence |-> confidence]

-----------------------------------------------------------------------------
(* convert_jckv_database *)

\* index of the column "Ver.3.0 意味対応"
COL_PATTERN == 10

\* a cell that openpyxl reads as None: a sequence no string equals
None == <<-1>>

\* str(cell or '')
StrOrEmpty(cell) == IF cell = None \/ cell = <<>> THEN <<>> ELSE cell

\* str.strip()
RECURSIVE LStrip(_)
LStrip(s) == IF s # <<>> /\ IsSpace(Head(s)) THEN LStrip(Tail(s)) ELSE s

RECURSIVE RStrip(_)
RStrip(s) ==
    IF s # <<>> /\ IsSpace(s[Len(s)]) THEN RStrip(SubSeq(s, 1, Len(s) - 1)) ELSE s

Strip(s) == RStrip(LStrip(s))

\* pinyin.replace('\n', ' ')
NewlinesToSpaces(s) == [i \in 1..Len(s) |-> IF s[i] = 10 THEN 32 ELSE s[i]]

\* the comparison codes and the placeholders of the sheet
Code_GT   == <<65310>>
Code_LT   == <<65308>>
Code_GTLT == <<65310, 65308>>
Code_NE   == <<8800>>
Code_EQ   == <<65309>>
Code_PHI  == <<966>>
Dashes    == <<45, 45>>
Str_nan   == <<110, 97, 110>>

\* mutant: the rows of the codes for "JP has extra" and "CN has extra" swapped
PATTERN_MAP_swapped ==
    [p \in {Code_GT, Code_LT, Code_GTLT, Code_NE} |->
        CASE p = Code_GT   -> [type |-> 2, severity |-> "important", category |-> "scope_difference"]
          [] p = Code_LT   -> [type |-> 1, severity |-> "important", category |-> "scope_difference"]
          [] p = Code_GTLT -> [type |-> 3, severity |-> "important", category |-> "scope_difference"]
          [] p = Code_NE   -> [type |-> 4, severity |-> "critical", category |-> "true_divergence"]]

PATTERN_MAP ==
    [p \in {Code_GT, Code_LT, Code_GTLT, Code_NE} |->
        CASE p = Code_GT   -> [type |-> 1, severity |-> "important", category |-> "scope_difference"]
          [] p = Code_LT   -> [type |-> 2, severity |-> "important", category |-> "scope_difference"]
          [] p = Code_GTLT -> [type |-> 3, severity |-> "important", category |-> "scope_difference"]
          [] p = Code_NE   -> [type |-> 4, severity |-> "critical", category |-> "true_divergence"]]

\* a row is [n |-> len(row), pattern, headword, standard, reading, cn_chars,
\* pinyin |-> the cells of those columns]; the try body of one loop pass:
\* [emit |-> FALSE] for a row passed over, else the object built with the
\* incremented entry_num
ConvertRow(row, entry_num) ==
    LET pattern       == Strip(StrOrEmpty(row.pattern))
        headword      == Strip(StrOrEmpty(row.headword))
        standard_form == Strip(StrOrEmpty(row.standard))
        reading       == Strip(StrOrEmpty(row.reading))
        cn_chars      == Strip(StrOrEmpty(row.cn_chars))
        pinyin        == Strip(StrOrEmpty(row.pinyin))
        characters    == IF headword # <<>> /\ headword # Dashes
                         THEN headword ELSE standard_form
        pattern_info  == PATTERN_MAP[pattern]
        jp_reading_formatted == IF reading # <<>> /\ reading # Str_nan
                                THEN reading ELSE <<>>
        pinyin_clean  == IF pinyin # <<>> /\ pinyin # Str_nan
                         THEN Strip(NewlinesToSpaces(pinyin)) ELSE <<>>
    IN  IF row.n <= COL_PATTERN THEN [emit |-> FALSE]
        ELSE IF pattern = Code_EQ THEN [emit |-> FALSE]
        ELSE IF pattern = Code_PHI THEN [emit |-> FALSE]
        ELSE IF pattern \notin DOMAIN PATTERN_MAP THEN [emit |-> FALSE]
        ELSE IF characters = <<>> \/ characters = Dashes THEN [emit |-> FALSE]
        ELSE IF cn_chars = Dashes \/ cn_chars = <<>> THEN [emit |-> FALSE]
        ELSE [emit |-> TRUE,
              ff |-> FalseFriend(Str_jckv_ \o Fmt04d(entry_num + 1), characters,
                                 pattern_info.type, pattern_info.category,
                                 pattern_info.severity, jp_reading_formatted,
                                 pinyin_clean, "jckv", Frac(9, 10))]

\* for row_idx, row in enumerate(rows, start=2): the objects appended
RECURSIVE ConvertLoop(_, _, _)
ConvertLoop(rs, entry_num, false_friends) ==
    IF rs = <<>> THEN false_friends
    ELSE LET r == ConvertRow(Head(rs), entry_num)
         IN  IF r.emit
             THEN ConvertLoop(Tail(rs), entry_num + 1, Append(false_friends, r.ff))
             ELSE ConvertLoop(Tail(rs), entry_num, false_friends)

convert_jckv_database(rs) == ConvertLoop(rs, 0, <<>>)

-----------------------------------------------------------------------------
(* auto_detect_false_friends *)

\* load_jmdict_meanings and load_cedict_meanings return an empty dict; a
\* dict is a sequence of [k |-> word, v |-> meanings]
load_jmdict_meanings == <<>>
load_cedict_meanings == <<>>

Threshold == Frac(3, 10)
CutCritical == Frac(1, 10)
CutImportant == Frac(2, 10)

\* the object built for one word whose similarity is below the threshold;
\* n is len(candidates)
Candidate(n, word, similarity) ==
    FalseFriend(Str_auto_ \o Fmt04d(n), word,
                IF FracLess(similarity, CutCritical) THEN 4 ELSE 3,
                "true_divergence",
                IF FracLess(similarity, CutCritical) THEN "critical"
                ELSE IF FracLess(similarity, CutImportant) THEN "important"
                ELSE "subtle",
                <<>>, <<>>, "auto",
                Frac(similarity[2] - similarity[1], similarity[2]))

\* for word in shared, in the order `order` in which the set is iterated
RECURSIVE DetectLoop(_, _, _, _, _)
DetectLoop(order, jp, cn, threshold, candidates) ==
    IF order = <<>> THEN candidates
    ELSE LET word == Head(order)
             similarity == compute_meaning_similarity(DictGet(jp, word), DictGet(cn, word))
         IN  DetectLoop(Tail(order), jp, cn, threshold,
                        IF FracLess(similarity, threshold)
                        THEN Append(candidates, Candidate(Len(candidates), word, similarity))
                        ELSE candidates)

\* candidates.sort(key=lambda x: x.confidence, reverse=True): stable
RECURSIVE InsertByConfidence(_, _)
InsertByConfidence(s, x) ==
    IF s = <<>> THEN <<x>>
    ELSE IF FracLess(Head(s).confidence, x.confidence) THEN <<x>> \o s
    ELSE <<Head(s)>> \o InsertByConfidence(Tail(s), x)

RECURSIVE SortByConfidence(_, _)
SortByConfidence(acc, lst) ==
    IF lst = <<>> THEN acc
    ELSE SortByConfidence(InsertByConfidence(acc, Head(lst)), Tail(lst))

DictKeys(d) == {d[i].k : i \in 1..Len(d)}

\* the orders in which a set can be iterated
Orders(S) == {o \in [1..Cardinality(S) -> S] : Range(o) = S}

auto_detect_false_friends(jp, cn, order, threshold) ==
    SortByConfidence(<<>>, DetectLoop(order, jp, cn, threshold, <<>>))

-----------------------------------------------------------------------------
(* load_curated_false_friends *)

\* entry.get(f, default) on an entry given as a record of the keys it has
Get(entry, f, default) == IF f \in DOMAIN entry THEN entry[f] ELSE default

\* entry['id'] and entry['characters'] raise KeyError on an entry without them
Raises(entry) == "id" \notin DOMAIN entry \/ "characters" \notin DOMAIN entry

CuratedObject(entry) ==
    FalseFriend(entry.id, entry.characters,
                Get(entry, "type", 4),
                Get(entry, "category", "true_divergence"),
                Get(entry, "severity", "important"),
                Get(entry, "jp_reading", <<>>),
                Get(entry, "cn_pinyin", <<>>),
                "curated", Frac(1, 1))

\* for entry in entries: [ok |-> FALSE] when an entry raises, else the list
RECURSIVE LoadLoop(_, _)
LoadLoop(es, false_friends) ==
    IF es = <<>> THEN [ok |-> TRUE, list |-> false_friends]
    ELSE IF Raises(Head(es)) THEN [ok |-> FALSE]
    ELSE LoadLoop(Tail(es), Append(false_friends, CuratedObject(Head(es))))

load_curated_false_friends(es) == LoadLoop(es, <<>>)

-----------------------------------------------------------------------------
(* Direct calls of merge_false_friends on arbitrary lists of objects *)

\* sample field values of an argument object
Profiles ==
    { [type |-> 4, category |-> "true_divergence", severity |-> "critical",
       jp_reading |-> <<>>, cn_pinyin |-> <<>>],
      [type |-> 3, category |-> "scope_difference", severity |-> "subtle",
       jp_reading |-> R_ai, cn_pinyin |-> <<>>],
      [type |-> 1, category |-> "japanese_coinage", severity |-> "minor",
       jp_reading |-> <<>>, cn_pinyin |-> P_ai],
      [type |-> 2, category |-> "scope_difference", severity |-> "important",
       jp_reading |-> R_kai, cn_pinyin |-> P_kai] }

ArgObject(i, src, k, p) ==
    FalseFriend((CASE src = "curated" -> Str_ff_
                   [] src = "jckv"    -> Str_jckv_
                   [] OTHER           -> Str_auto_) \o Fmt04d(i),
                k, p.type, p.category, p.severity, p.jp_reading, p.cn_pinyin, src,
                IF src = "jckv" THEN Frac(9, 10) ELSE Frac(1, 1))

\* the objects 1..nc are the curated list, the next nj the jckv list, the
\* rest the auto list: the three lists share no object
InitMerge ==
    \E nc \in 0..MaxRecs, nj \in 0..MaxRecs, na \in 0..MaxRecs :
        /\ nc + nj + na <= MaxRecs
        /\ \E ks \in [1..(nc + nj + na) -> Keys], ps \in [1..(nc + nj + na) -> Profiles] :
              heap = [i \in 1..(nc + nj + na) |->
                        ArgObject(i, IF i <= nc THEN "curated"
                                     ELSE IF i <= nc + nj THEN "jckv" ELSE "auto",
                                  ks[i], ps[i])]
        /\ curated = [i \in 1..nc |-> i]
        /\ jckv = [i \in 1..nj |-> nc + i]
        /\ auto = [i \in 1..na |-> nc + nj + i]
        /\ pc = "loaded"
        /\ args = <<>>
        /\ pre = <<>>
        /\ result = <<>>
        /\ first = <<>>
        /\ entries = <<>>
        /\ rows = <<>>
        /\ jp_in = <<>>
        /\ cn_in = <<>>
        /\ score = <<0, 1>>

\* merged = merge_false_friends(a[1], a[2], a[3])
Call(a, next) ==
    LET r == merge_false_friends(heap, a[1], a[2], a[3])
    IN  /\ args' = a
        /\ pre' = heap
        /\ heap' = r.heap
        /\ result' = r.result
        /\ pc' = next

\* merge_false_friends(curated, jckv, auto)
MergeCall ==
    /\ pc = "loaded"
    /\ Call(<<curated, jckv, auto>>, "merged")
    /\ first' = <<>>
    /\ UNCHANGED inputs

\* the returned list merged again as the only source, in any one position
RemergeCall ==
    /\ pc = "merged"
    /\ \E pos \in 1..3 :
          Call([i \in 1..3 |-> IF i = pos THEN result ELSE <<>>], "remerged")
    /\ first' = result
    /\ UNCHANGED inputs

NextMerge == MergeCall \/ RemergeCall

SpecMerge == InitMerge /\ [][NextMerge]_vars

-----------------------------------------------------------------------------
(* merge_false_friends(L, L, L): one list passed in all three positions *)

InitSelf ==
    \E n \in 0..MaxRecs :
        /\ \E ks \in [1..n -> Keys], ps \in [1..n -> Profiles] :
              heap = [i \in 1..n |-> ArgObject(i, "jckv", ks[i], ps[i])]
        /\ jckv = [i \in 1..n |-> i]
        /\ curated = <<>>
        /\ auto = <<>>
        /\ pc = "loaded"
        /\ args = <<>>
        /\ pre = <<>>
        /\ result = <<>>
        /\ first = <<>>
        /\ entries = <<>>
        /\ rows = <<>>
        /\ jp_in = <<>>
        /\ cn_in = <<>>
        /\ score = <<0, 1>>

SelfMergeCall ==
    /\ pc = "loaded"
    /\ Call(<<jckv, jckv, jckv>>, "self")
    /\ first' = <<>>
    /\ UNCHANGED inputs

NextSelf == SelfMergeCall

SpecSelf == InitSelf /\ [][NextSelf]_vars

-----------------------------------------------------------------------------
(* main: the three loaders, then the merge *)

\* the sequences over S of length at most n
BoundedSeq(S, n) == UNION {[1..m -> S] : m \in 0..n}

\* sample entries of the curated file: with only the required keys, with
\* the classification and a reading given, and one without an id
CuratedEntries ==
    { [id |-> Str_ff_ \o Fmt04d(i), characters |-> k] : i \in 1..2, k \in {K_ai, K_deguchi} }
    \cup { [id |-> Str_ff_ \o Fmt04d(i), characters |-> k, type |-> 1,
            category |-> "scope_difference", severity |-> "important",
            jp_reading |-> R_kai] : i \in 1..2, k \in {K_ai, K_deguchi} }
    \cup { [characters |-> K_aijin] }

\* sample pattern cells: the six codes, an empty cell, a padded code and two
\* strings that are no code
PatternCells ==
    { Code_GT, Code_LT, Code_GTLT, Code_NE, Code_EQ, Code_PHI, None,
      <<32, 8800, 12288>>, <<65308, 65310>>, <<63>> }

Row(n, pattern, headword, standard, reading, cn_chars, pinyin) ==
    [n |-> n, pattern |-> pattern, headword |-> headword, standard |-> standard,
     reading |-> reading, cn_chars |-> cn_chars, pinyin |-> pinyin]

\* sample rows: each pattern cell on a complete row, then rows with the
\* headword missing, the Chinese form missing, and a short row
SheetRows ==
    { Row(18, p, K_ai, <<12354, 12356>>, R_ai, <<29233>>, P_ai) : p \in PatternCells }
    \cup { Row(18, Code_NE, Dashes, K_deguchi, None, K_deguchi, Str_nan),
           Row(18, Code_NE, None, None, R_ai, <<29233>>, P_ai),
           Row(18, Code_GT, K_aijin, None, R_kai, Dashes, P_kai),
           Row(18, Code_LT, K_aijin, None, R_kai, None, <<107, 97, 105, 10>>),
           Row(8, None, K_aijin, None, R_kai, None, None) }

Init ==
    /\ pc = "start"
    /\ heap = <<>>
    /\ curated = <<>>
    /\ jckv = <<>>
    /\ auto = <<>>
    /\ args = <<>>
    /\ pre = <<>>
    /\ result = <<>>
    /\ first = <<>>
    /\ entries = <<>>
    /\ rows = <<>>
    /\ jp_in = <<>>
    /\ cn_in = <<>>
    /\ score = <<0, 1>>

\* the object numbers of n objects appended to the heap
NewRefs(n) == [i \in 1..n |-> Len(heap) + i]

\* curated = load_curated_false_friends(args.curated); a file that does not
\* exist leaves curated = [], as a file without entries does.  A KeyError
\* is caught nowhere and ends the run.
LoadCurated ==
    /\ pc = "start"
    /\ \E es \in BoundedSeq(CuratedEntries, MaxRecs) :
          LET r == load_curated_false_friends(es)
          IN  /\ entries' = es
              /\ IF r.ok
                 THEN /\ heap' = heap \o r.list
                      /\ curated' = NewRefs(Len(r.list))
                      /\ pc' = "curated_loaded"
                 ELSE /\ pc' = "crashed"
                      /\ UNCHANGED <<heap, curated>>
    /\ UNCHANGED <<jckv, auto, args, pre, result, first, rows, jp_in, cn_in, score>>

\* jckv = convert_jckv_database(args.jckv); no file leaves jckv = []
ConvertJckv ==
    /\ pc = "curated_loaded"
    /\ \E rs \in BoundedSeq(SheetRows, MaxRecs - Len(heap)) :
          LET ffs == convert_jckv_database(rs)
          IN  /\ rows' = rs
              /\ heap' = heap \o ffs
              /\ jckv' = NewRefs(Len(ffs))
    /\ pc' = "jckv_loaded"
    /\ UNCHANGED <<curated, auto, args, pre, result, first, entries, jp_in, cn_in, score>>

\* auto = auto_detect_false_friends(args.jmdict, args.cedict), or [] without
\* the options
AutoDetect ==
    /\ pc = "jckv_loaded"
    /\ \E order \in Orders(DictKeys(load_jmdict_meanings) \cap DictKeys(load_cedict_meanings)) :
          LET ffs == auto_detect_false_friends(load_jmdict_meanings,
                                               load_cedict_meanings, order, Threshold)
          IN  /\ heap' = heap \o ffs
              /\ auto' = NewRefs(Len(ffs))
    /\ pc' = "loaded"
    /\ UNCHANGED <<curated, jckv, args, pre, result, first, entries, rows, jp_in, cn_in, score>>

\* if curated or jckv or auto: merged = merge_false_friends(curated, jckv, auto)
MainMerge ==
    /\ curated # <<>> \/ jckv # <<>> \/ auto # <<>>
    /\ MergeCall

\* else: print("No data to process. ...")
NoData ==
    /\ pc = "loaded"
    /\ curated = <<>> /\ jckv = <<>> /\ auto = <<>>
    /\ pc' = "nodata"
    /\ UNCHANGED <<heap, args, pre, result, first, inputs>>

Next == LoadCurated \/ ConvertJckv \/ AutoDetect \/ MainMerge \/ NoData

Spec == Init /\ [][Next]_vars

-----------------------------------------------------------------------------
(* compute_meaning_similarity and the candidate loop on given dictionaries *)

\* sample meaning strings: "", " \t", "run fast", "Run  FAST\n", "sit slow",
\* "go up run"
Meanings ==
    { <<>>,
      <<32, 9>>,
      <<114, 117, 110, 32, 102, 97, 115, 116>>,
      <<82, 117, 110, 32, 32, 70, 65, 83, 84, 10>>,
      <<115, 105, 116, 32, 115, 108, 111, 119>>,
      <<103, 111, 32, 117, 112, 32, 114, 117, 110>> }

InitSim ==
    /\ jp_in \in BoundedSeq(Meanings, MaxMeanings)
    /\ cn_in \in BoundedSeq(Meanings, MaxMeanings)
    /\ score = <<0, 1>>
    /\ pc = "sim"
    /\ heap = <<>>
    /\ curated = <<>>
    /\ jckv = <<>>
    /\ auto = <<>>
    /\ args = <<>>
    /\ pre = <<>>
    /\ result = <<>>
    /\ first = <<>>
    /\ entries = <<>>
    /\ rows = <<>>

\* similarity = compute_meaning_similarity(jp_in, cn_in)
Score ==
    /\ pc = "sim"
    /\ score' = compute_meaning_similarity(jp_in, cn_in)
    /\ pc' = "scored"
    /\ UNCHANGED <<heap, curated, jckv, auto, args, pre, result, first,
                   entries, rows, jp_in, cn_in>>

\* auto_detect_false_friends on dictionaries that hold jp_in and cn_in for
\* one word and a pair of unrelated meanings for another
Detect ==
    /\ pc = "scored"
    /\ LET jp == << [k |-> K_ai, v |-> jp_in],
                    [k |-> K_deguchi, v |-> << <<114, 117, 110>> >>] >>
           cn == << [k |-> K_ai, v |-> cn_in],
                    [k |-> K_deguchi, v |-> << <<115, 105, 116>> >>] >>
       IN  \E order \in Orders(DictKeys(jp) \cap DictKeys(cn)) :
              LET ffs == auto_detect_false_friends(jp, cn, order, Threshold)
              IN  /\ heap' = ffs
                  /\ auto' = NewRefs(Len(ffs))
    /\ pc' = "detected"
    /\ UNCHANGED <<curated, jckv, args, pre, result, first,
                   entries, rows, jp_in, cn_in, score>>

NextSim == Score \/ Detect

SpecSim == InitSim /\ [][NextSim]_vars

-----------------------------------------------------------------------------
(* Properties of merge_false_friends *)

Called == pc \in {"merged", "remerged", "self"}

CharsOf(h, lst) == {h[lst[i]].characters : i \in 1..Len(lst)}

\* the last object of lst whose characters are k
LastWith(h, lst, k) ==
    lst[CHOOSE i \in 1..Len(lst) :
            /\ h[lst[i]].characters = k
            /\ \A j \in (i + 1)..Len(lst) : h[lst[j]].characters # k]

ArgChars == CharsOf(pre, args[1]) \cup CharsOf(pre, args[2]) \cup CharsOf(pre, args[3])

\* C1: the returned list holds exactly one record for every distinct
\* `characters` value of the three argument lists and none for any other
\* value; three empty lists give the empty list.
C1_OneRecordPerKey ==
    Called =>
        /\ CharsOf(heap, result) = ArgChars
        /\ \A i, j \in 1..Len(result) :
              heap[result[i]].characters = heap[result[j]].characters => i = j
        /\ (args = <<<<>>, <<>>, <<>>>> => result = <<>>)

\* C1 witness: three records were passed, two of them in different lists
\* with the same key, and the call returned two records.
C1_Witness ==
    /\ pc = "merged"
    /\ Len(curated) + Len(jckv) + Len(auto) = 3
    /\ Len(result) = 2
    /\ \E c \in Range(curated), j \in Range(jckv) :
          pre[c].characters = pre[j].characters

ResultFor(k) == result[CHOOSE i \in 1..Len(result) : heap[result[i]].characters = k]

\* every field but jp_reading and cn_pinyin is as on entry
SameButReadings(o) ==
    [heap[o] EXCEPT !.jp_reading = <<>>, !.cn_pinyin = <<>>]
        = [pre[o] EXCEPT !.jp_reading = <<>>, !.cn_pinyin = <<>>]

\* C3: for a key absent from the curated list, when every jckv record with
\* the key has an empty jp_reading and the last auto record with the key has
\* a non-empty one, the returned record is the last jckv record with the key,
\* has source jckv, carries the auto record's jp_reading and keeps its other
\* fields (cn_pinyin apart); likewise for cn_pinyin; a non-empty field of a
\* jckv record is never overwritten.
C3_Backfill ==
    pc = "merged" =>
        /\ \A k \in (CharsOf(pre, jckv) \cap CharsOf(pre, auto)) \ CharsOf(pre, curated) :
              LET o == ResultFor(k)
                  a == LastWith(pre, auto, k)
              IN  /\ ( /\ \A j \in Range(jckv) :
                             pre[j].characters = k => pre[j].jp_reading = <<>>
                       /\ pre[a].jp_reading # <<>> )
                      => /\ o = LastWith(pre, jckv, k)
                         /\ heap[o].source = "jckv"
                         /\ heap[o].jp_reading = pre[a].jp_reading
                         /\ SameButReadings(o)
                  /\ ( /\ \A j \in Range(jckv) :
                             pre[j].characters = k => pre[j].cn_pinyin = <<>>
                       /\ pre[a].cn_pinyin # <<>> )
                      => /\ o = LastWith(pre, jckv, k)
                         /\ heap[o].source = "jckv"
                         /\ heap[o].cn_pinyin = pre[a].cn_pinyin
                         /\ SameButReadings(o)
        /\ \A j \in Range(jckv) :
              /\ pre[j].jp_reading # <<>> => heap[j].jp_reading = pre[j].jp_reading
              /\ pre[j].cn_pinyin # <<>> => heap[j].cn_pinyin = pre[j].cn_pinyin

\* C3 witness: two jckv records with the same key and empty readings, an
\* auto record with that key and both readings set, no curated record; the
\* returned record is the second jckv record and carries both readings.
C3_Witness ==
    /\ pc = "merged"
    /\ curated = <<>>
    /\ Len(jckv) = 2
    /\ Len(auto) = 1
    /\ pre[jckv[1]].characters = pre[auto[1]].characters
    /\ pre[jckv[2]].characters = pre[auto[1]].characters
    /\ pre[jckv[1]].jp_reading = <<>> /\ pre[jckv[1]].cn_pinyin = <<>>
    /\ pre[jckv[2]].jp_reading = <<>> /\ pre[jckv[2]].cn_pinyin = <<>>
    /\ pre[auto[1]].jp_reading # <<>> /\ pre[auto[1]].cn_pinyin # <<>>
    /\ result = <<jckv[2]>>
    /\ heap[jckv[2]].jp_reading = pre[auto[1]].jp_reading
    /\ heap[jckv[2]].cn_pinyin = pre[auto[1]].cn_pinyin

\* the documented rank of a severity string
RankOf(s) ==
    IF s = "critical" THEN 0
    ELSE IF s = "important" THEN 1
    ELSE IF s = "subtle" THEN 2 ELSE 3

\* every adjacent pair of the returned list is in (rank, characters) order
AscendingByRank ==
    \A i \in 1..(Len(result) - 1) :
        LET a == heap[result[i]]
            b == heap[result[i + 1]]
        IN  \/ RankOf(a.severity) < RankOf(b.severity)
            \/ /\ RankOf(a.severity) = RankOf(b.severity)
               /\ StrLeq(a.characters, b.characters)

\* C4: the returned list is in ascending order of (severity rank,
\* characters), rank critical 0, important 1, subtle 2, anything else 3.
C4_Sorted == Called => AscendingByRank

\* C4 witness: three records returned, a subtle one followed by two of an
\* unrecognized severity.
C4_Witness ==
    /\ pc = "merged"
    /\ Len(result) = 3
    /\ heap[result[1]].severity = "subtle"
    /\ heap[result[2]].severity = "minor"
    /\ heap[result[3]].severity = "minor"

\* C5: merging the returned list again as the only non-empty source, in any
\* one position, returns the same records in the same order and changes no
\* field.
C5_Remerge ==
    pc = "remerged" => result = first /\ heap = pre

\* C5 witness: a list of two records, one of them backfilled by the first
\* call, has been merged again in the jckv position.
C5_Witness ==
    /\ pc = "remerged"
    /\ args[2] = first
    /\ Len(first) = 2
    /\ \E o \in Range(first) : heap[o].source = "jckv" /\ heap[o].jp_reading # <<>>
    /\ \E o \in Range(first) : heap[o].jp_reading = <<>>

\* L without the records that a later record of L supersedes
RECURSIVE DedupLast(_, _)
DedupLast(h, lst) ==
    IF lst = <<>> THEN <<>>
    ELSE IF h[Head(lst)].characters \in CharsOf(h, Tail(lst))
         THEN DedupLast(h, Tail(lst))
         ELSE <<Head(lst)>> \o DedupLast(h, Tail(lst))

\* C6: merge_false_friends(L, L, L) returns L deduplicated by characters
\* keeping the last occurrence, sorted, each kept record with the field
\* values it had in L before the call.
C6_SelfMerge ==
    pc = "self" =>
        /\ Len(result) = Len(DedupLast(pre, args[1]))
        /\ Range(result) = Range(DedupLast(pre, args[1]))
        /\ AscendingByRank
        /\ \A o \in Range(result) : heap[o] = pre[o]

-----------------------------------------------------------------------------
(* Properties of convert_jckv_database *)

\* cell is the string code with whitespace around it
TrimsTo(cell, code) ==
    /\ cell # None
    /\ \E i \in 1..Len(cell) :
          /\ i + Len(code) - 1 <= Len(cell)
          /\ SubSeq(cell, i, i + Len(code) - 1) = code
          /\ \A k \in 1..Len(cell) :
                (k < i \/ k > i + Len(code) - 1) => IsSpace(cell[k])

\* a written form that is neither missing nor the placeholder "--"
UsableForm(cell) ==
    /\ cell # None
    /\ \E k \in 1..Len(cell) : ~IsSpace(cell[k])
    /\ ~TrimsTo(cell, Dashes)

\* the documented mapping table
MappingTable ==
    { <<Code_GT, 1, "important", "scope_difference">>,
      <<Code_LT, 2, "important", "scope_difference">>,
      <<Code_GTLT, 3, "important", "scope_difference">>,
      <<Code_NE, 4, "critical", "true_divergence">> }

\* the table rows a sheet row matches: at most one
Matches(row) ==
    { m \in MappingTable :
        /\ row.n > COL_PATTERN
        /\ TrimsTo(row.pattern, m[1])
        /\ UsableForm(row.headword) \/ UsableForm(row.standard)
        /\ UsableForm(row.cn_chars) }

\* the (type, severity, category) triples the sheet is to produce, in order
RECURSIVE ExpectedTriples(_)
ExpectedTriples(rs) ==
    IF rs = <<>> THEN <<>>
    ELSE (IF Matches(Head(rs)) = {} THEN <<>>
          ELSE LET m == CHOOSE x \in Matches(Head(rs)) : TRUE
               IN  << <<m[2], m[3], m[4]>> >>)
         \o ExpectedTriples(Tail(rs))

Triple(o) == <<o.type, o.severity, o.category>>

Converted == pc \in {"jckv_loaded", "loaded", "merged", "nodata"}

\* C7: a row whose trimmed code is one of the four false-friend codes (with
\* a usable headword and Chinese form) produces a record with the table's
\* (type, severity, category); a row with any other code produces no
\* record.
C7_Classification ==
    Converted =>
        [i \in 1..Len(jckv) |-> Triple(heap[jckv[i]])] = ExpectedTriples(rows)

\* C7 witness: a sheet of a padded code, a string that is no code and a
\* third code has been converted into two records.
C7_Witness ==
    /\ pc = "jckv_loaded"
    /\ Len(rows) = 3
    /\ rows[1].pattern = <<32, 8800, 12288>>
    /\ rows[2].pattern = <<65308, 65310>>
    /\ rows[3].pattern = Code_GTLT
    /\ Len(jckv) = 2
    /\ Triple(heap[jckv[1]]) = <<4, "critical", "true_divergence">>
    /\ Triple(heap[jckv[2]]) = <<3, "important", "scope_difference">>

-----------------------------------------------------------------------------
(* Properties of compute_meaning_similarity *)

\* the lowercased maximal runs of non-whitespace of s
TokensOf(s) ==
    { [k \in 1..(p[2] - p[1] + 1) |-> LowerChar(s[p[1] + k - 1])] :
        p \in { q \in (1..Len(s)) \X (1..Len(s)) :
                  /\ q[1] <= q[2]
                  /\ \A k \in q[1]..q[2] : ~IsSpace(s[k])
                  /\ q[1] = 1 \/ IsSpace(s[q[1] - 1])
                  /\ q[2] = Len(s) \/ IsSpace(s[q[2] + 1]) } }

TokenSet(meanings) == UNION {TokensOf(meanings[i]) : i \in 1..Len(meanings)}

\* the fraction x equals n / d
FracIs(x, n, d) == x[1] * d = n * x[2]

Scored == pc \in {"scored", "detected"}

\* C8 as stated: 0.5 if either list is empty, else 0.5 if the union of the
\* token sets is empty and |J & C| / |J | C| in every other case.
C8_Original ==
    Scored =>
        LET J == TokenSet(jp_in)
            C == TokenSet(cn_in)
        IN  IF jp_in = <<>> \/ cn_in = <<>> THEN FracIs(score, 1, 2)
            ELSE IF J \cup C = {} THEN FracIs(score, 1, 2)
            ELSE FracIs(score, Cardinality(J \cap C), Cardinality(J \cup C))

\* C8 amended: 0.5 if either list is empty or either token set is empty,
\* else |J & C| / |J | C|; the value is within [0, 1].
C8_Similarity ==
    Scored =>
        LET J == TokenSet(jp_in)
            C == TokenSet(cn_in)
        IN  /\ IF jp_in = <<>> \/ cn_in = <<>> \/ J = {} \/ C = {}
               THEN FracIs(score, 1, 2)
               ELSE FracIs(score, Cardinality(J \cap C), Cardinality(J \cup C))
            /\ score[2] > 0 /\ 0 <= score[1] /\ score[1] <= score[2]

\* C8 witness: a list whose strings hold no token was scored against a list
\* that holds tokens, and the score is 0.5.
C8_Witness ==
    /\ pc = "scored"
    /\ jp_in # <<>> /\ TokenSet(jp_in) = {}
    /\ TokenSet(cn_in) # {}
    /\ FracIs(score, 1, 2)

-----------------------------------------------------------------------------
(* Properties of the records of a run *)

\* C9: every record a loader has built, and so every record of the merged
\* output, has a (type, severity, category) that is a row of the mapping
\* table.
C9_TripleInTable ==
    /\ \A o \in 1..Len(heap) :
          \E m \in MappingTable : Triple(heap[o]) = <<m[2], m[3], m[4]>>
    /\ pc = "merged" =>
          \A i \in 1..Len(result) :
              \E m \in MappingTable : Triple(heap[result[i]]) = <<m[2], m[3], m[4]>>

\* C10: the ids of the records of the merged output are pairwise distinct.
C10_DistinctIds ==
    pc = "merged" =>
        \A i, j \in 1..Len(result) :
            heap[result[i]].id = heap[result[j]].id => i = j

-----------------------------------------------------------------------------
(* Properties of the batch loads *)

\* the entries that have both required keys, in file order
RECURSIVE WellFormed(_)
WellFormed(es) ==
    IF es = <<>> THEN <<>>
    ELSE (IF "id" \in DOMAIN Head(es) /\ "characters" \in DOMAIN Head(es)
          THEN <<Head(es)>> ELSE <<>>)
         \o WellFormed(Tail(es))

\* C11: in both batch loads a malformed record is skipped and the load goes
\* on: no error of one record ends the run, every well-formed curated entry
\* is in the curated list and every usable sheet row is in the jckv list.
C11_SkipAndContinue ==
    /\ pc # "crashed"
    /\ pc # "start" =>
          [i \in 1..Len(curated) |->
              <<heap[curated[i]].id, heap[curated[i]].characters>>]
            = [i \in 1..Len(WellFormed(entries)) |->
                  <<WellFormed(entries)[i].id, WellFormed(entries)[i].characters>>]
    /\ Converted =>
          Len(jckv) = Cardinality({i \in 1..Len(rows) : Matches(rows[i]) # {}})

-----------------------------------------------------------------------------
(* Frame of merge_false_friends *)

\* the object stored under the key of the i-th jckv argument when its turn
\* comes: the latest earlier jckv argument with the key, else the last auto
\* argument with the key, else 0 for none
StoredBefore(i) ==
    LET k == pre[args[2][i]].characters
        earlier == {m \in 1..(i - 1) : pre[args[2][m]].characters = k}
    IN  IF earlier # {}
        THEN args[2][CHOOSE m \in earlier : \A n \in earlier : n <= m]
        ELSE IF k \in CharsOf(pre, args[3]) THEN LastWith(pre, args[3], k)
        ELSE 0

\* the value a reading field of a jckv argument may end with: its own when
\* that is not empty or nothing non-empty is stored, else the stored one
FrameValue(own, e, stored) == IF own = <<>> /\ e # 0 /\ stored # <<>> THEN stored ELSE own

\* C12: when the three lists share no object, the call changes no field of a
\* curated or auto record; on a jckv record it changes only jp_reading and
\* cn_pinyin, each only from empty to the non-empty value of the record
\* stored under the same key at that moment; a record is not written to when
\* it is replaced; every returned record is one of the argument objects.
C12_Frame ==
    pc \in {"merged", "remerged"} =>
        /\ Len(heap) = Len(pre)
        /\ \A o \in Range(args[1]) \cup Range(args[3]) : heap[o] = pre[o]
        /\ \A i \in 1..Len(args[2]) :
              LET j == args[2][i]
                  e == StoredBefore(i)
              IN  /\ SameButReadings(j)
                  /\ heap[j].jp_reading =
                        FrameValue(pre[j].jp_reading, e,
                                   IF e = 0 THEN <<>> ELSE heap[e].jp_reading)
                  /\ heap[j].cn_pinyin =
                        FrameValue(pre[j].cn_pinyin, e,
                                   IF e = 0 THEN <<>> ELSE heap[e].cn_pinyin)
        /\ Range(result) \subseteq Range(args[1]) \cup Range(args[2]) \cup Range(args[3])

\* C12 witness: a jckv record took its jp_reading from an auto record with
\* its key and was then replaced by a curated record; the auto and curated
\* records are as on entry and the curated record is the one returned.
C12_Witness ==
    /\ pc = "merged"
    /\ Len(curated) = 1 /\ Len(jckv) = 1 /\ Len(auto) = 1
    /\ pre[jckv[1]].characters = pre[auto[1]].characters
    /\ pre[curated[1]].characters = pre[auto[1]].characters
    /\ pre[jckv[1]].jp_reading = <<>>
    /\ pre[auto[1]].jp_reading # <<>>
    /\ heap[jckv[1]].jp_reading = pre[auto[1]].jp_reading
    /\ heap[auto[1]] = pre[auto[1]]
    /\ heap[curated[1]] = pre[curated[1]]
    /\ result = curated

=============================================================================
